---- MODULE Spec2Model ----
(***************************************************************************)
(* Model of git_tree.py: the branch-tree reconstruction engine.           *)
(*                                                                         *)
(* A commit is identified by its history: the sequence of changes from    *)
(* the tree's root (the common ancestor) up to the commit.  Two refs      *)
(* point at the same commit iff their histories are equal, the parent of  *)
(* a commit is its history without the last change, and cherry-picking a  *)
(* commit onto a branch appends the commit's last change to the branch.   *)
(***************************************************************************)
EXTENDS Integers, Sequences, FiniteSets, TLC

\* ----- bounds ------------------------------------------------------------
MaxNodes == 3        \* commits of the tree, root included
MaxLabels == 3       \* branch names given on the command line: 1..MaxLabels
MaxTimeout == 1      \* conflict_resolution_timeout, in poll intervals
MaxFailures == 2     \* failing cherry-picks in one run
MaxLeftover == 1     \* per label, temporary names <l>-tmp-0.. left by older runs
LiveNodes == 3       \* commits of the trees of the runs checked for liveness
SegNodes == 4        \* commits of the trees bfs_segments is applied to on its own
DeepNodes == 4       \* commits of the deeper trees some runs are checked on
RepoCommits == 4     \* commits of the histories build_tree is applied to
RepoBranches == 2    \* branch references build_tree is called with

NoRef == 0           \* None where a branch label is expected
NoCommit == 0 - 1    \* None where a tree node is expected

Labels == 1 .. MaxLabels
BaseLabel == MaxLabels + 1

\* ----- branch names ------------------------------------------------------
\* "<label>" is <<label, -1>>, "<label>-tmp-<k>" is <<label, k>>
Orig(l) == <<l, 0 - 1>>
TmpName(l, k) == <<l, k>>
NoName == <<NoRef, 0 - 1>>
Names == (((Labels \cup {BaseLabel}) \X {0 - 1}) \cup (Labels \X (0 .. MaxLeftover)))
           \cup {NoName}

\* ----- changes and histories ----------------------------------------------
\* the change introduced by tree node c
Chg(c) == [id |-> c, kind |-> "tree", res |-> FALSE]
\* a local change the required tree does not contain (amended or added commit)
LocalChg(c) == [id |-> c, kind |-> "local", res |-> FALSE]
\* the change the base branch carries on top of the root
BaseChg == [id |-> 0, kind |-> "base", res |-> FALSE]
\* the commit an external actor makes in place of a cherry-pick that stopped
Resolved(ch) == [ch EXCEPT !.res = TRUE]

NoBranch == << >>

Last(s) == s[Len(s)]
Front(s) == SubSeq(s, 1, Len(s) - 1)

\* ----- the Commit tree (git_tree.py, class Commit) -------------------------
\* t.n nodes 0..n-1, node 0 the root; parent[c] < c; parent2[c] is the second
\* parent of a merge commit, or NoCommit; list is the branch list of the command
\* line (labels are numbered in the order of their names), tip[l] is the node
\* label l is attached to.
Nodes(t) == 0 .. (t.n - 1)

is_merger(t, c) == c # 0 /\ t.parent2[c] # NoCommit

RECURSIVE SeqOfSet(_)
SeqOfSet(S) ==
    IF S = {} THEN << >>
    ELSE LET m == CHOOSE x \in S : \A y \in S : x <= y
         IN  <<m>> \o SeqOfSet(S \ {m})

\* Commit.children: the commits that name c as one of their parents
children(t, c) ==
    SeqOfSet({d \in Nodes(t) \ {0} : t.parent[d] = c \/ t.parent2[d] = c})

\* Commit.refs: build_tree appends the labels in the order of the branch list
refs(t, c) == SelectSeq(t.list, LAMBDA l : t.tip[l] = c)

\* Commit.first_ref
first_ref(t, c) == IF refs(t, c) = << >> THEN NoRef ELSE refs(t, c)[1]

RECURSIVE find_descendant(_, _)
RECURSIVE find_in_children(_, _, _)
\* Commit.__find_descendant with the all_true check: pre-order walk
find_descendant(t, c) == <<c>> \o find_in_children(t, children(t, c), 1)
find_in_children(t, kids, i) ==
    IF i > Len(kids) THEN << >>
    ELSE find_descendant(t, kids[i]) \o find_in_children(t, kids, i + 1)

all_nodes(t) == find_descendant(t, 0)

\* history of tree node c: the changes on the first-parent path from the root
RECURSIVE Path(_, _)
Path(t, c) == IF c = 0 THEN <<Chg(0)>> ELSE Append(Path(t, t.parent[c]), Chg(c))

\* sorted(c.refs)
RECURSIVE InsertSorted(_, _)
InsertSorted(s, x) ==
    IF s = << >> THEN <<x>>
    ELSE IF x <= s[1] THEN <<x>> \o s
    ELSE <<s[1]>> \o InsertSorted(Tail(s), x)

RECURSIVE sorted(_)
sorted(s) == IF s = << >> THEN << >> ELSE InsertSorted(sorted(Tail(s)), s[1])

\* ----- errors ------------------------------------------------------------
\* args holds what an exception carries besides its message
NoError == [kind |-> "none", commit |-> NoCommit, refs |-> << >>, args |-> << >>]
MergeError(c) == [kind |-> "merge", commit |-> c, refs |-> << >>, args |-> << >>]
MultiRefError(c, rs) == [kind |-> "multi_ref", commit |-> c, refs |-> rs, args |-> << >>]
OtherError(k) == [kind |-> k, commit |-> NoCommit, refs |-> << >>, args |-> << >>]

\* the CalledProcessError of check_call(["git", "cherry-pick", commit])
CalledProcessError(commit) ==
    [kind |-> "cherry_pick", commit |-> NoCommit, refs |-> << >>, args |-> <<commit>>]

\* mutant: the timeout error does not carry the error of the cherry-pick
ConflictNotResolved_bare(base_error) == OtherError("timeout")

\* RuntimeError("Conflict not resolved in time", base_error)
ConflictNotResolved(base_error) ==
    [kind |-> "timeout", commit |-> NoCommit, refs |-> << >>, args |-> <<base_error>>]

\* ----- verify_tree ---------------------------------------------------------
\* mutant: the check for several labels is missing
RECURSIVE verify_from_merge_only(_, _, _)
verify_from_merge_only(t, order, i) ==
    IF i > Len(order) THEN NoError
    ELSE IF is_merger(t, order[i]) THEN MergeError(order[i])
    ELSE verify_from_merge_only(t, order, i + 1)

RECURSIVE verify_from(_, _, _)
verify_from(t, order, i) ==
    IF i > Len(order) THEN NoError
    ELSE LET c == order[i] IN
         IF is_merger(t, c) THEN MergeError(c)
         ELSE IF Len(refs(t, c)) > 1 THEN MultiRefError(c, sorted(refs(t, c)))
         ELSE verify_from(t, order, i + 1)

\* mutant: only the root is looked at, not its descendants
verify_tree_root_only(t) == verify_from(t, <<0>>, 1)

verify_tree(t) == verify_from(t, all_nodes(t), 1)

\* ----- the trees build_tree can return -------------------------------------
\* the branch list of the command line: in the order of the names, or reversed
ListOrders(k) == {[i \in 1 .. k |-> i], [i \in 1 .. k |-> k + 1 - i]}

\* first parents: the tree is numbered with every parent before its children
Parents(n) == {p \in [1 .. (n - 1) -> 0 .. (n - 1)] : \A c \in 1 .. (n - 1) : p[c] < c}

\* at most one commit has a second parent: <<commit, second parent>>
Merges(n) ==
    {<<NoCommit, NoCommit>>} \cup {m \in (2 .. (n - 1)) \X (0 .. (n - 1)) : m[2] < m[1]}

\* the labels are numbered along the numbering of their commits
Tips(n, k) ==
    {tp \in [1 .. k -> 0 .. (n - 1)] : \A l1, l2 \in 1 .. k : l1 < l2 => tp[l1] <= tp[l2]}

\* the order of the branch list shows only where two labels meet on a commit
Orders(k, tp) ==
    IF \A l1, l2 \in 1 .. k : tp[l1] = tp[l2] => l1 = l2
    THEN {[i \in 1 .. k |-> i]}
    ELSE ListOrders(k)

\* every node is on the history of some branch tip: every childless node
\* carries a label
TreesUpTo(nodes, labels) ==
    { t \in UNION { UNION { { [n |-> n, k |-> k, parent |-> p,
                               parent2 |-> [c \in 1 .. (n - 1) |->
                                               IF c = m[1] THEN m[2] ELSE NoCommit],
                               list |-> ls, tip |-> tp]
                              : p \in Parents(n), m \in Merges(n), ls \in Orders(k, tp) }
                            : tp \in Tips(n, k) }
                    : n \in 1 .. nodes, k \in 1 .. labels } :
        /\ \A c \in 1 .. (t.n - 1) : t.parent2[c] # t.parent[c]
        /\ \A c \in 0 .. (t.n - 1) :
              children(t, c) = << >> => refs(t, c) # << >> }

Trees == TreesUpTo(MaxNodes, MaxLabels)

\* the trees among them that verify_tree accepts: no commit has a second parent and
\* no two labels meet on a commit
VerifiedTreesUpTo(nodes, labels) ==
    { t \in UNION { { [n |-> n, k |-> k, parent |-> p,
                       parent2 |-> [c \in 1 .. (n - 1) |-> NoCommit],
                       list |-> [i \in 1 .. k |-> i], tip |-> tp]
                      : p \in Parents(n),
                        tp \in {x \in Tips(n, k) : \A l1, l2 \in 1 .. k : x[l1] = x[l2] => l1 = l2} }
                    : n \in 1 .. nodes, k \in 1 .. labels } :
        \A c \in 0 .. (t.n - 1) : children(t, c) = << >> => refs(t, c) # << >> }

\* the built tree is the common ancestor of the branches alone in
\* rebase_without_root: the root carries a label or the history forks at it
IsMergeBase(t) == refs(t, 0) # << >> \/ Len(children(t, 0)) >= 2

\* ----- bfs_segments --------------------------------------------------------
NoEntry == [commit |-> NoCommit, seg_start_ref |-> NoRef, seg_start_hash |-> NoCommit]
NoSegment == [start_ref |-> NoRef, start_full_hash |-> NoCommit,
              end_ref |-> NoRef, end_full_hash |-> NoCommit]

\* Entry.root
EntryRoot(t) == [commit |-> 0, seg_start_ref |-> first_ref(t, 0), seg_start_hash |-> 0]

\* Entry.child
EntryChild(t, c, par) ==
    IF refs(t, c) # << >>
    THEN [commit |-> c, seg_start_ref |-> first_ref(t, c), seg_start_hash |-> c]
    ELSE [commit |-> c, seg_start_ref |-> par.seg_start_ref,
          seg_start_hash |-> par.seg_start_hash]

\* the generator before its first resumption: the queue holds the root entry;
\* dequeued records the commits that queue.popleft() has returned so far
GenInit(t) == [queue |-> <<EntryRoot(t)>>, parent |-> NoEntry, idx |-> 1, dequeued |-> << >>]

\* the first yield condition of bfs_segments
YieldsNormal(new_entry, parent) ==
    /\ new_entry.seg_start_ref # NoRef
    /\ parent.seg_start_ref # NoRef
    /\ new_entry.seg_start_ref # parent.seg_start_ref

\* mutant: the elif branch of bfs_segments is missing
YieldsAtRoot_never(new_entry, parent) == FALSE

\* the second (elif) yield condition of bfs_segments
YieldsAtRoot(new_entry, parent) ==
    new_entry.seg_start_ref # NoRef /\ parent.seg_start_hash = 0

\* the one element of a singleton set
Only(S) == CHOOSE x \in S : TRUE

\* resume the generator: run it to its next yield, or to its end (the state of
\* the generator after a step is computed once, as the bound variable g1)
RECURSIVE bfs_segments(_, _)
bfs_segments(t, g) ==
    IF g.parent = NoEntry
    THEN IF g.queue = << >>
         THEN [gen |-> g, seg |-> NoSegment]
         ELSE Only({bfs_segments(t, g1) :
                       g1 \in {[queue |-> Tail(g.queue), parent |-> Head(g.queue), idx |-> 1,
                                dequeued |-> Append(g.dequeued, Head(g.queue).commit)]}})
    ELSE LET kids == children(t, g.parent.commit) IN
         IF g.idx > Len(kids)
         THEN Only({bfs_segments(t, g1) : g1 \in {[g EXCEPT !.parent = NoEntry]}})
         ELSE LET new_entry == EntryChild(t, kids[g.idx], g.parent)
                  g2 == [queue |-> Append(g.queue, new_entry),
                         parent |-> g.parent, idx |-> g.idx + 1, dequeued |-> g.dequeued]
              IN  IF YieldsNormal(new_entry, g.parent)
                  THEN [gen |-> g2,
                        seg |-> [start_ref |-> g.parent.seg_start_ref,
                                 start_full_hash |-> g.parent.seg_start_hash,
                                 end_ref |-> new_entry.seg_start_ref,
                                 end_full_hash |-> new_entry.seg_start_hash]]
                  ELSE IF YieldsAtRoot(new_entry, g.parent)
                  THEN [gen |-> g2,
                        seg |-> [start_ref |-> first_ref(t, 0),
                                 start_full_hash |-> 0,
                                 end_ref |-> new_entry.seg_start_ref,
                                 end_full_hash |-> new_entry.seg_start_hash]]
                  ELSE Only({bfs_segments(t, g1) : g1 \in {g2}})

\* ----- backend queries -----------------------------------------------------
\* git_branch_exists(name, remote=False)
git_branch_exists(br, name) == br[name] # NoBranch

RECURSIVE CommonPrefixLen(_, _)
CommonPrefixLen(a, b) ==
    IF a = << >> \/ b = << >> \/ a[1] # b[1] THEN 0
    ELSE 1 + CommonPrefixLen(Tail(a), Tail(b))

\* mutant: the log query does not stop at the start commit
git_log_range_unbounded(start_history, end_history) ==
    [j \in 1 .. (Len(end_history) - 1) |->
        SubSeq(end_history, 1, Len(end_history) + 1 - j)]

\* git_log_range: the commits reachable from the end ref and not from the
\* start commit, newest first; each commit is given by its history
git_log_range(start_history, end_history) ==
    LET k == CommonPrefixLen(start_history, end_history)
        m == Len(end_history)
    IN  [j \in 1 .. (m - k) |-> SubSeq(end_history, 1, m + 1 - j)]

\* mutant: every call of the provider counts from zero
provider_index_restart(br, old_name, index) ==
    CHOOSE j \in 0 .. (MaxLeftover + 1) :
        /\ j <= MaxLeftover => ~git_branch_exists(br, TmpName(old_name, j))
        /\ \A i \in 0 .. (j - 1) : git_branch_exists(br, TmpName(old_name, i))

\* mutant: the provider does not ask the backend whether the name is taken
provider_index_unchecked(br, old_name, index) == index

\* create_temp_branch_name_provider.provider: the index it stops at
RECURSIVE provider_index(_, _, _)
provider_index(br, old_name, index) ==
    IF index <= MaxLeftover /\ git_branch_exists(br, TmpName(old_name, index))
    THEN provider_index(br, old_name, index + 1)
    ELSE index

\* old_to_new_name_map is an insertion-ordered dict: a sequence of
\* <<old label, new name>> pairs
MapKeys(m) == {m[i][1] : i \in DOMAIN m}
MapGet(m, old) == LET i == CHOOSE j \in DOMAIN m : m[j][1] = old IN m[i][2]

\* ----- build_tree: its arguments and its outcome --------------------------
\* no call of build_tree
NoRepo == [history |-> << >>, ancestor |-> NoCommit, branches |-> << >>]

\* commits[p] of a parent that hash_to_log_map does not hold
KeyError == OtherError("key_error")

\* build_tree has not returned
NoBuilt == [error |-> NoError, full_hash |-> NoCommit, refs |-> << >>,
            is_merger |-> << >>, children |-> << >>]

\* ----- state ---------------------------------------------------------------
VARIABLES
    flow,                  \* "update", "rebase_with_root" or "rebase_without_root"
    tree,                  \* the tree that is replayed (remote_tree / local_tree)
    timeout_secs,          \* conflict_resolution_timeout_secs
    branches,              \* backend: local branch name -> history, or NoBranch
    head,                  \* backend: the checked-out branch
    conflicted,            \* backend: a stopped cherry-pick left changed paths
    untracked,             \* backend: the working tree holds untracked files
    cherry_pick_head,      \* backend: a stopped cherry-pick awaits its commit
    before,                \* the backend state when the run began
    pc,                    \* position of the engine
    error,                 \* the exception that ended the run
    gen,                   \* the suspended bfs_segments generator
    segment,               \* the segment being replayed
    old_to_new_name_map,
    ref_index,             \* the counter of the temporary-name provider
    commits,               \* rest of the range of the segment, newest first
    fin_index,             \* position of the two final loops in the map
    elapsed,               \* time.time() - start in wait_for_conflict_resolution
    waited,                \* the time spent in all the waits of the run so far
    last_failure,          \* why the last failed cherry-pick stopped
    failures,              \* failed cherry-picks so far
    picked,                \* the commits git_cherrypick was called with, in order
    repo,                  \* the history and the arguments build_tree is called with
    built                  \* what build_tree returned or raised

vars == <<flow, tree, timeout_secs, branches, head, conflicted, untracked, cherry_pick_head,
          before, pc, error, gen,
          segment, old_to_new_name_map, ref_index, commits, fin_index, elapsed, waited,
          last_failure, failures, picked, repo, built>>

Flows == {"update", "rebase_with_root", "rebase_without_root"}

base_branch == Orig(BaseLabel)

\* what a local branch named like label l points at when the update flow
\* starts: the commit of the required (remote) tree, or a local commit in its
\* place (amended; for the root, which is an ancestor of every branch, added)
LocalVersion(t, l, amended) ==
    LET c == t.tip[l] IN
    IF ~amended THEN Path(t, c)
    ELSE IF c = 0 THEN Append(Path(t, c), LocalChg(c))
    ELSE Append(Path(t, t.parent[c]), LocalChg(c))

\* names under which an earlier, aborted run left temporary branches: none,
\* or the first MaxLeftover temporary names of one label of the tree
LeftoverSets(t) ==
    {{}} \cup {{TmpName(l, i) : i \in 0 .. (MaxLeftover - 1)} : l \in 1 .. t.k}

\* the local branches of the update flow: those of the required tree, one of
\* them at most amended since
AmendedSets(f, t) ==
    {[l \in 1 .. t.k |-> l = a] : a \in (IF f = "update" THEN 0 .. t.k ELSE {0})}

\* the rebase flows replay onto a base branch that has moved on from the root
InitBranches(f, t) ==
    { [nm \in Names |->
          IF nm[2] = 0 - 1 /\ nm[1] \in 1 .. t.k THEN LocalVersion(t, nm[1], amended[nm[1]])
          ELSE IF nm = base_branch /\ f # "update" THEN Append(Path(t, 0), BaseChg)
          ELSE IF nm \in left THEN Path(t, 0)
          ELSE NoBranch]
      : amended \in AmendedSets(f, t), left \in LeftoverSets(t) }

\* the state in which a run on one of the trees starts, for a timeout among timeouts
StartOn(trees, timeouts) ==
    /\ flow \in Flows
    /\ tree \in trees
    /\ flow = "rebase_without_root" => IsMergeBase(tree)
    /\ timeout_secs \in timeouts
    /\ branches \in InitBranches(flow, tree)
    /\ head = NoName
    /\ conflicted = FALSE
    /\ untracked \in BOOLEAN
    /\ cherry_pick_head = FALSE
    /\ before = [branches |-> branches, head |-> head,
                 conflicted |-> conflicted, untracked |-> untracked,
                 cherry_pick_head |-> cherry_pick_head]
    /\ pc = "verify"
    /\ error = NoError
    /\ gen = GenInit(tree)
    /\ segment = NoSegment
    /\ old_to_new_name_map = << >>
    /\ ref_index = 0
    /\ commits = << >>
    /\ fin_index = 1
    /\ elapsed = 0
    /\ waited = 0
    /\ last_failure = "none"
    /\ failures = 0
    /\ picked = << >>
    /\ repo = NoRepo
    /\ built = NoBuilt

\* the state in which a run starts, for a timeout among timeouts
Start(timeouts) == StartOn(Trees, timeouts)

Init == Start({MaxTimeout})

\* ----- the engine ------------------------------------------------------------
engine_vars == <<pc, error, gen, segment, old_to_new_name_map, ref_index, commits,
                 fin_index, elapsed, waited, last_failure, failures, picked>>
\* what the engine only reads
input_vars == <<flow, tree, timeout_secs, before, repo, built>>
backend_vars == <<branches, head, conflicted, untracked, cherry_pick_head>>

Fail(e) == pc' = "failed" /\ error' = e

\* has_conflicting_files: git status --porcelain=v1 prints at least one line
has_conflicting_files == conflicted \/ untracked

\* verify_tree(local_tree) of process_update: the local branches hold no merge
\* commit; two of them on one commit make a multi-labeled node
verify_local(t, br) ==
    IF \E l1, l2 \in 1 .. t.k : l1 < l2 /\ br[Orig(l1)] = br[Orig(l2)]
    THEN LET l1 == CHOOSE l \in 1 .. t.k : \E l2 \in 1 .. t.k : l < l2 /\ br[Orig(l)] = br[Orig(l2)]
         IN  MultiRefError(NoCommit, SeqOfSet({l \in 1 .. t.k : br[Orig(l)] = br[Orig(l1)]}))
    ELSE NoError

\* process_update, rebase_with_root, rebase_without_root up to the loop
Verify ==
    /\ pc = "verify"
    /\ LET e1 == verify_tree(tree)
           e2 == IF e1 = NoError /\ flow = "update" THEN verify_local(tree, branches) ELSE e1
       IN  IF e2 = NoError
           THEN pc' = "segments" /\ error' = error
           ELSE Fail(e2)
    /\ UNCHANGED <<gen, segment, old_to_new_name_map, ref_index, commits, fin_index,
                   elapsed, waited, last_failure, failures, picked>>
    /\ UNCHANGED <<input_vars, backend_vars>>

\* mutant: the rebase flows start at the root's label as the update flow does
StartRef_no_base(f, t, seg, m) ==
    IF seg.start_ref \in MapKeys(m) THEN MapGet(m, seg.start_ref)
    ELSE Orig(seg.start_ref)

\* mutant: the map is not consulted, a child starts at the original of its parent
StartRef_original(f, t, seg, m) ==
    IF f # "update" /\ seg.start_full_hash = 0 THEN base_branch
    ELSE Orig(seg.start_ref)

\* start_ref of update_local_struct
start_ref_update(t, seg, m) ==
    IF seg.start_ref \in MapKeys(m) THEN MapGet(m, seg.start_ref)
    ELSE Orig(seg.start_ref)

\* start_ref of rebase_with_root
start_ref_with_root(t, seg, m) ==
    IF seg.start_full_hash = 0 THEN base_branch
    ELSE IF seg.start_ref \in MapKeys(m) THEN MapGet(m, seg.start_ref)
    ELSE Orig(seg.start_ref)

\* mutant: rebase_without_root starts every segment as update_local_struct does
start_ref_without_root_no_base(t, seg, m) ==
    IF seg.start_ref \in MapKeys(m) THEN MapGet(m, seg.start_ref)
    ELSE Orig(seg.start_ref)

\* start_ref of rebase_without_root
start_ref_without_root(t, seg, m) ==
    IF seg.start_full_hash = 0 THEN base_branch
    ELSE IF seg.start_ref \in MapKeys(m) THEN MapGet(m, seg.start_ref)
    ELSE Orig(seg.start_ref)

\* the start point of the temporary branch of a segment
StartRef(f, t, seg, m) ==
    IF f = "rebase_with_root" THEN start_ref_with_root(t, seg, m)
    ELSE IF f = "rebase_without_root" THEN start_ref_without_root(t, seg, m)
    ELSE start_ref_update(t, seg, m)

\* mutant: the final loops are part of the body of the segment loop
AfterPick_finalize(cs) == IF cs = << >> THEN "delete" ELSE "pick"

\* where the loop goes once the range of the segment is known or shortened
AfterPick(cs) == IF cs = << >> THEN "segments" ELSE "pick"

\* mutant: a mapped end label has its original checked out
CheckedOut_original(m, old_ref) == Orig(old_ref)

\* git_checkout(old_to_new_name_map[old_ref]) for an end label that is mapped
CheckedOut(m, old_ref) == MapGet(m, old_ref)

\* one resumption of "for segment in bfs_segments(tree)": the generator runs to
\* its next segment, the temporary branch is created (or checked out) and the
\* range of the segment is read; at the end of the generator the final loops begin
NextSegment ==
    /\ pc = "segments"
    /\ \E r \in {bfs_segments(tree, gen)} :
       LET old_ref == r.seg.end_ref
           range == git_log_range(Path(tree, r.seg.start_full_hash), branches[Orig(old_ref)])
       IN
       /\ gen' = r.gen
       /\ IF r.seg = NoSegment
          THEN /\ pc' = "delete"
               /\ UNCHANGED <<error, segment, old_to_new_name_map, ref_index, commits,
                              branches, head>>
          ELSE
          /\ segment' = r.seg
          /\ IF old_ref \in MapKeys(old_to_new_name_map)
             THEN /\ head' = CheckedOut(old_to_new_name_map, old_ref)
                  /\ commits' = range
                  /\ pc' = AfterPick(range)
                  /\ UNCHANGED <<error, old_to_new_name_map, ref_index, branches>>
             ELSE LET index == provider_index(branches, old_ref, ref_index)
                      new_ref == TmpName(old_ref, index)
                      start_ref == StartRef(flow, tree, r.seg, old_to_new_name_map)
                  IN
                  /\ ref_index' = index
                  /\ old_to_new_name_map' = Append(old_to_new_name_map, <<old_ref, new_ref>>)
                  /\ IF start_ref = NoName
                     THEN \* check_call gets None in its argument list
                          /\ Fail(OtherError("type_error"))
                          /\ UNCHANGED <<commits, branches, head>>
                     ELSE IF git_branch_exists(branches, new_ref)
                     THEN /\ Fail(OtherError("branch_exists"))
                          /\ UNCHANGED <<commits, branches, head>>
                     ELSE IF ~git_branch_exists(branches, start_ref)
                     THEN /\ Fail(OtherError("bad_start_point"))
                          /\ UNCHANGED <<commits, branches, head>>
                     ELSE \* git_branch(new_ref, start_ref): git checkout -b
                          /\ branches' = [branches EXCEPT ![new_ref] = branches[start_ref]]
                          /\ head' = new_ref
                          /\ commits' = range
                          /\ pc' = AfterPick(range)
                          /\ error' = error
    /\ UNCHANGED <<fin_index, elapsed, waited, last_failure, failures, picked, conflicted, untracked,
                   cherry_pick_head>>
    /\ UNCHANGED input_vars

Range(h) == {h[i] : i \in DOMAIN h}

\* mutant: the range is replayed in the order the log query returns it
CurrentCommit_newest == commits[1]

\* the commit git_cherrypick_range is at: reversed(commits) takes the oldest first
CurrentCommit == Last(commits)

\* git cherry-pick stops on a commit whose change the branch already holds
\* ("The previous cherry-pick is now empty")
IsEmptyPick(br, h, commit) == Last(commit) \in Range(br[h])

\* a content conflict needs a branch that differs from the parent of the commit
CanConflict(br, h, commit) == br[h] # Front(commit)

\* git_cherrypick(commit) inside the try of git_cherrypick_range
CherryPick ==
    /\ pc = "pick"
    /\ \/ \* the commit applies
          /\ ~IsEmptyPick(branches, head, CurrentCommit)
          /\ branches' = [branches EXCEPT ![head] = Append(@, Last(CurrentCommit))]
          /\ commits' = Front(commits)
          /\ pc' = AfterPick(commits')
          /\ UNCHANGED <<conflicted, cherry_pick_head, last_failure, failures>>
       \/ \* CalledProcessError: content conflict, changed paths are left behind
          /\ ~IsEmptyPick(branches, head, CurrentCommit)
          /\ CanConflict(branches, head, CurrentCommit)
          /\ failures < MaxFailures
          /\ conflicted' = TRUE
          /\ cherry_pick_head' = TRUE
          /\ last_failure' = "conflict"
          /\ failures' = failures + 1
          /\ pc' = "except"
          /\ UNCHANGED <<branches, commits>>
       \/ \* CalledProcessError for another reason: nothing is applied
          /\ IsEmptyPick(branches, head, CurrentCommit) \/ failures < MaxFailures
          /\ last_failure' = "other"
          /\ cherry_pick_head' = TRUE
          /\ failures' = IF failures < MaxFailures THEN failures + 1 ELSE failures
          /\ pc' = "except"
          /\ UNCHANGED <<branches, commits, conflicted>>
    /\ picked' = Append(picked, CurrentCommit)
    /\ UNCHANGED <<error, gen, segment, old_to_new_name_map, ref_index, fin_index, elapsed, waited>>
    /\ UNCHANGED <<head, untracked>>
    /\ UNCHANGED input_vars

\* mutant: the clock of the wait goes on from where the last wait left it
StartClock_run(e) == e

\* "start = time.time()": the clock of a wait starts when the wait starts
StartClock(e) == 0

\* the except clause of git_cherrypick_range: "if not has_conflicting_files():
\* raise e", else wait_for_conflict_resolution starts its clock
CheckConflict ==
    /\ pc = "except"
    /\ IF ~has_conflicting_files
       THEN Fail(CalledProcessError(CurrentCommit)) /\ UNCHANGED <<elapsed, waited>>
       ELSE pc' = "wait" /\ elapsed' = StartClock(elapsed) /\ waited' = waited /\ error' = error
    /\ UNCHANGED <<gen, segment, old_to_new_name_map, ref_index, commits, fin_index,
                   last_failure, failures, picked>>
    /\ UNCHANGED <<input_vars, backend_vars>>

\* mutant: the wait returns at its first poll, whatever the status says
WaitPoll_blind ==
    /\ pc = "wait"
    /\ commits' = Front(commits) /\ pc' = AfterPick(commits')
    /\ UNCHANGED <<error, gen, segment, old_to_new_name_map, ref_index, fin_index,
                   elapsed, waited, last_failure, failures, picked>>
    /\ UNCHANGED <<input_vars, backend_vars>>

\* mutant: the clock is read before the status
WaitPoll_clock_first ==
    /\ pc = "wait"
    /\ IF elapsed > timeout_secs
       THEN Fail(ConflictNotResolved(CalledProcessError(Last(commits)))) /\ UNCHANGED commits
       ELSE /\ error' = error
            /\ IF has_conflicting_files
               THEN pc' = "timecheck" /\ UNCHANGED commits
               ELSE commits' = Front(commits) /\ pc' = AfterPick(commits')
    /\ UNCHANGED <<gen, segment, old_to_new_name_map, ref_index, fin_index,
                   elapsed, waited, last_failure, failures, picked>>
    /\ UNCHANGED <<input_vars, backend_vars>>

\* "while has_conflicting_files()": a clean tree ends the wait and the loop of
\* git_cherrypick_range goes on with the next commit
WaitPoll ==
    /\ pc = "wait"
    /\ IF has_conflicting_files
       THEN pc' = "timecheck" /\ UNCHANGED commits
       ELSE commits' = Front(commits) /\ pc' = AfterPick(commits')
    /\ UNCHANGED <<error, gen, segment, old_to_new_name_map, ref_index, fin_index,
                   elapsed, waited, last_failure, failures, picked>>
    /\ UNCHANGED <<input_vars, backend_vars>>

\* mutant: the elapsed time is not compared with the timeout
TimedOut_at_once(e, t) == e >= 0

\* mutant: the wait has no timeout
TimedOut_never(e, t) == FALSE

\* "time.time() - start > timeout_secs"
TimedOut(e, t) == e > t

\* the clock is followed up to the first value past the timeout
Later(e) == IF e > timeout_secs THEN e ELSE e + 1

\* mutant: on a timeout the temporary branch being built is removed
WaitTimeout_rollback ==
    /\ pc = "timecheck"
    /\ IF TimedOut(elapsed, timeout_secs)
       THEN /\ Fail(ConflictNotResolved(CalledProcessError(CurrentCommit)))
            /\ branches' = [branches EXCEPT ![head] = NoBranch]
            /\ UNCHANGED <<elapsed, waited>>
       ELSE /\ pc' = "wait" /\ elapsed' = Later(elapsed) /\ error' = error
            /\ waited' = waited + (elapsed' - elapsed)
            /\ UNCHANGED branches
    /\ UNCHANGED <<gen, segment, old_to_new_name_map, ref_index, commits, fin_index,
                   last_failure, failures, picked>>
    /\ UNCHANGED <<head, conflicted, untracked, cherry_pick_head>>
    /\ UNCHANGED input_vars

\* the body of the loop of wait_for_conflict_resolution: the timeout test,
\* then time.sleep(0.1), during which one poll interval passes
WaitTimeout ==
    /\ pc = "timecheck"
    /\ IF TimedOut(elapsed, timeout_secs)
       THEN Fail(ConflictNotResolved(CalledProcessError(CurrentCommit))) /\ UNCHANGED <<elapsed, waited>>
       ELSE /\ pc' = "wait" /\ elapsed' = Later(elapsed) /\ error' = error
            /\ waited' = waited + (elapsed' - elapsed)
    /\ UNCHANGED <<gen, segment, old_to_new_name_map, ref_index, commits, fin_index,
                   last_failure, failures, picked>>
    /\ UNCHANGED <<input_vars, backend_vars>>

\* time passes between the reading of the status and the reading of the clock
Tick ==
    /\ pc = "timecheck"
    /\ elapsed <= timeout_secs
    /\ elapsed' = elapsed + 1
    /\ waited' = waited + 1
    /\ UNCHANGED <<pc, error, gen, segment, old_to_new_name_map, ref_index, commits,
                   fin_index, last_failure, failures, picked>>
    /\ UNCHANGED <<input_vars, backend_vars>>

\* the external actor (test_git_tree.py, ConflictResolver): sees a stopped
\* cherry-pick with a non-empty status and commits its own version of the
\* change; it may or may not "git add" the untracked files
Resolver ==
    /\ pc \in {"except", "wait", "timecheck"}
    /\ cherry_pick_head /\ has_conflicting_files
    /\ branches' = [branches EXCEPT ![head] = Append(@, Resolved(Last(CurrentCommit)))]
    /\ conflicted' = FALSE
    /\ cherry_pick_head' = FALSE
    /\ untracked' \in {untracked, FALSE}
    /\ UNCHANGED head
    /\ UNCHANGED engine_vars
    /\ UNCHANGED input_vars

\* mutant: the loop that deletes the originals is missing
DeleteOld_missing ==
    /\ pc = "delete"
    /\ pc' = "rename"
    /\ UNCHANGED <<error, gen, segment, old_to_new_name_map, ref_index, commits,
                   fin_index, elapsed, waited, last_failure, failures, picked>>
    /\ UNCHANGED <<input_vars, backend_vars>>

\* "for old_ref in old_to_new_name_map.keys(): git_delete_branch(old_ref)"
DeleteOld ==
    /\ pc = "delete"
    /\ IF fin_index > Len(old_to_new_name_map)
       THEN pc' = "rename" /\ fin_index' = 1 /\ UNCHANGED <<error, branches>>
       ELSE LET old_ref == Orig(old_to_new_name_map[fin_index][1]) IN
            IF ~git_branch_exists(branches, old_ref) \/ head = old_ref
            THEN Fail(OtherError("delete_failed")) /\ UNCHANGED <<fin_index, branches>>
            ELSE /\ branches' = [branches EXCEPT ![old_ref] = NoBranch]
                 /\ fin_index' = fin_index + 1
                 /\ UNCHANGED <<pc, error>>
    /\ UNCHANGED <<gen, segment, old_to_new_name_map, ref_index, commits, elapsed, waited,
                   last_failure, failures, picked>>
    /\ UNCHANGED <<head, conflicted, untracked, cherry_pick_head>>
    /\ UNCHANGED input_vars

\* mutant: the original name is set to the temporary branch, which stays
RenameNew_copy ==
    /\ pc = "rename"
    /\ IF fin_index > Len(old_to_new_name_map)
       THEN pc' = "done" /\ UNCHANGED <<error, fin_index, branches, head>>
       ELSE LET old_ref == Orig(old_to_new_name_map[fin_index][1])
                new_ref == old_to_new_name_map[fin_index][2]
            IN  /\ branches' = [branches EXCEPT ![old_ref] = branches[new_ref]]
                /\ fin_index' = fin_index + 1
                /\ UNCHANGED <<pc, error, head>>
    /\ UNCHANGED <<gen, segment, old_to_new_name_map, ref_index, commits, elapsed, waited,
                   last_failure, failures, picked>>
    /\ UNCHANGED <<conflicted, untracked, cherry_pick_head>>
    /\ UNCHANGED input_vars

\* "for old_ref, new_ref in old_to_new_name_map.items():
\*      git_rename_branch(new_ref, old_ref)"
RenameNew ==
    /\ pc = "rename"
    /\ IF fin_index > Len(old_to_new_name_map)
       THEN pc' = "done" /\ UNCHANGED <<error, fin_index, branches, head>>
       ELSE LET old_ref == Orig(old_to_new_name_map[fin_index][1])
                new_ref == old_to_new_name_map[fin_index][2]
            IN  IF git_branch_exists(branches, old_ref)
                THEN Fail(OtherError("branch_exists")) /\ UNCHANGED <<fin_index, branches, head>>
                ELSE IF ~git_branch_exists(branches, new_ref)
                THEN Fail(OtherError("rename_failed")) /\ UNCHANGED <<fin_index, branches, head>>
                ELSE /\ branches' = [branches EXCEPT ![old_ref] = branches[new_ref],
                                                     ![new_ref] = NoBranch]
                     /\ head' = IF head = new_ref THEN old_ref ELSE head
                     /\ fin_index' = fin_index + 1
                     /\ UNCHANGED <<pc, error>>
    /\ UNCHANGED <<gen, segment, old_to_new_name_map, ref_index, commits, elapsed, waited,
                   last_failure, failures, picked>>
    /\ UNCHANGED <<conflicted, untracked, cherry_pick_head>>
    /\ UNCHANGED input_vars

Engine ==
    \/ Verify
    \/ NextSegment
    \/ CherryPick
    \/ CheckConflict
    \/ WaitPoll
    \/ WaitTimeout
    \/ DeleteOld
    \/ RenameNew

Next ==
    \/ Engine
    \/ Tick
    \/ Resolver

Spec == Init /\ [][Next]_vars

\* runs on the trees of at most LiveNodes commits, in a repository without
\* left-over temporary branches; the engine is a running sequential process:
\* inside git_cherrypick_range and wait_for_conflict_resolution it takes its
\* next step; the clock and the external actor are free
LiveInit ==
    /\ Start(0 .. MaxTimeout)
    /\ tree.n <= LiveNodes
    /\ \A nm \in Names : nm[2] >= 0 => branches[nm] = NoBranch

LiveSpec == LiveInit /\ [][Next]_vars /\ WF_vars(WaitPoll) /\ WF_vars(WaitTimeout)

\* the runs of LiveSpec in which the engine, a sequential process, also takes
\* its next step in the segment loop and in the final loops
RunSpec ==
    /\ LiveSpec
    /\ WF_vars(NextSegment) /\ WF_vars(CherryPick) /\ WF_vars(CheckConflict)
    /\ WF_vars(DeleteOld) /\ WF_vars(RenameNew)

\* ----- runs on deeper trees --------------------------------------------------------
\* runs on verified trees of DeepNodes commits whose root carries a label, without
\* left-over temporary branches and untracked files
DeepInit ==
    /\ StartOn({t \in VerifiedTreesUpTo(DeepNodes, MaxLabels) :
                    t.n = DeepNodes /\ refs(t, 0) # << >>}, {MaxTimeout})
    /\ \A nm \in Names : nm[2] >= 0 => branches[nm] = NoBranch
    /\ ~untracked

DeepSpec == DeepInit /\ [][Next]_vars

\* ----- build_tree ------------------------------------------------------------------
\* a history: commit c of 1 .. Len(h) has the parents h[c], every one of them older;
\* commit 1 is the initial commit
ParentChoices(c) ==
    IF c = 1 THEN {<< >>}
    ELSE {<<p>> : p \in 1 .. c - 1}
         \cup {pq \in (1 .. c - 1) \X (1 .. c - 1) : pq[1] # pq[2]}

RECURSIVE Histories(_)
Histories(n) ==
    IF n = 0 THEN {<< >>}
    ELSE {Append(h, ps) : h \in Histories(n - 1), ps \in ParentChoices(n)}

\* the commits reachable from c, c included
RECURSIVE Reachable(_, _)
Reachable(h, c) == {c} \cup UNION {Reachable(h, h[c][i]) : i \in DOMAIN h[c]}

\* git merge-base --octopus: the best common ancestors, of which git prints one
git_common_ancestor(h, cs) ==
    LET common == {c \in 1 .. Len(h) : \A i \in DOMAIN cs : c \in Reachable(h, cs[i])}
    IN  {c \in common : \A d \in common \ {c} : c \notin Reachable(h, d)}

\* git log's order: newest first
RECURSIVE LogOrder(_)
LogOrder(S) ==
    IF S = {} THEN << >>
    ELSE LET m == CHOOSE x \in S : \A y \in S : y <= x
         IN  <<m>> \o LogOrder(S \ {m})

\* git log start..end: what end reaches and start does not
repo_log_range(h, start_commitish, end_commitish) ==
    LogOrder(Reachable(h, end_commitish) \ Reachable(h, start_commitish))

\* GitLog.parse: the ancestor is read with skip_parent_hashes
parent_hashes(h, ancestor, c) == IF c = ancestor THEN << >> ELSE h[c]

\* mutant: the name of a branch goes to the oldest commit of its range
RECURSIVE AddBranches_oldest(_, _, _, _, _)
AddBranches_oldest(h, ancestor, bs, i, m) ==
    IF i > Len(bs) THEN m
    ELSE LET commit_range_details == repo_log_range(h, ancestor, bs[i])
             added == SelectSeq(commit_range_details, LAMBDA c : c \notin Range(m.order))
             rf == IF commit_range_details = << >> THEN m.refs
                   ELSE [m.refs EXCEPT ![commit_range_details[Len(commit_range_details)]] =
                                           Append(@, i)]
         IN  AddBranches_oldest(h, ancestor, bs, i + 1,
                                [order |-> m.order \o added, refs |-> rf])

\* the second loop of build_tree from branch i on; m.order is the insertion order of
\* hash_to_log_map and m.refs the refs of its logs; branch i is named i
RECURSIVE AddBranches(_, _, _, _, _)
AddBranches(h, ancestor, bs, i, m) ==
    IF i > Len(bs) THEN m
    ELSE LET commit_range_details == repo_log_range(h, ancestor, bs[i])
             added == SelectSeq(commit_range_details, LAMBDA c : c \notin Range(m.order))
             rf == IF commit_range_details = << >> THEN m.refs
                   ELSE [m.refs EXCEPT ![commit_range_details[1]] = Append(@, i)]
         IN  AddBranches(h, ancestor, bs, i + 1, [order |-> m.order \o added, refs |-> rf])

build_tree(h, ancestor, bs) ==
    LET at_ancestor == SelectSeq([i \in DOMAIN bs |-> i], LAMBDA i : bs[i] = ancestor)
        m == AddBranches(h, ancestor, bs, 1,
                         [order |-> <<ancestor>>,
                          refs |-> [c \in 1 .. Len(h) |->
                                        IF c = ancestor THEN at_ancestor ELSE << >>]])
        keys == Range(m.order)
        ps(c) == parent_hashes(h, ancestor, c)
    IN  IF \E c \in keys : \E i \in DOMAIN ps(c) : ps(c)[i] \notin keys
        THEN [NoBuilt EXCEPT !.error = KeyError]
        ELSE [error |-> NoError,
              full_hash |-> ancestor,
              refs |-> [c \in keys |-> m.refs[c]],
              is_merger |-> [c \in keys |-> Len(ps(c)) > 1],
              children |-> [p \in keys |->
                  SelectSeq(m.order, LAMBDA c : \E i \in DOMAIN ps(c) : ps(c)[i] = p)]]

\* Commit.all_nodes of the returned tree, from commit c down
RECURSIVE built_nodes(_, _)
RECURSIVE built_nodes_of(_, _, _)
built_nodes(b, c) == <<c>> \o built_nodes_of(b, b.children[c], 1)
built_nodes_of(b, cs, i) ==
    IF i > Len(cs) THEN << >> ELSE built_nodes(b, cs[i]) \o built_nodes_of(b, cs, i + 1)

\* a call of build_tree: a history of up to RepoCommits commits, up to RepoBranches
\* branch references, and the ancestor that git_common_ancestor returns for them
BuildInit ==
    /\ \E n \in 1 .. RepoCommits, j \in 1 .. RepoBranches :
          \E h \in Histories(n), bs \in [1 .. j -> 1 .. n] :
             \E a \in git_common_ancestor(h, bs) :
                repo = [history |-> h, ancestor |-> a, branches |-> bs]
    /\ built = NoBuilt
    /\ tree \in TreesUpTo(1, 1)
    /\ flow = "rebase_without_root"
    /\ timeout_secs = MaxTimeout
    /\ branches = [nm \in Names |-> NoBranch]
    /\ head = NoName
    /\ conflicted = FALSE
    /\ untracked = FALSE
    /\ cherry_pick_head = FALSE
    /\ before = [branches |-> branches, head |-> head,
                 conflicted |-> conflicted, untracked |-> untracked,
                 cherry_pick_head |-> cherry_pick_head]
    /\ pc = "build"
    /\ error = NoError
    /\ gen = GenInit(tree)
    /\ segment = NoSegment
    /\ old_to_new_name_map = << >>
    /\ ref_index = 0
    /\ commits = << >>
    /\ fin_index = 1
    /\ elapsed = 0
    /\ waited = 0
    /\ last_failure = "none"
    /\ failures = 0
    /\ picked = << >>

\* local_tree = build_tree(branch_ancestor, branches)
Build ==
    /\ pc = "build"
    /\ built' = build_tree(repo.history, repo.ancestor, repo.branches)
    /\ pc' = "built"
    /\ UNCHANGED <<flow, tree, timeout_secs, before, repo>>
    /\ UNCHANGED <<error, gen, segment, old_to_new_name_map, ref_index, commits, fin_index,
                   elapsed, waited, last_failure, failures, picked>>
    /\ UNCHANGED backend_vars

BuildSpec == BuildInit /\ [][Build]_vars

\* ----- bfs_segments on its own ------------------------------------------------
\* the generator is applied to every verified tree of at most SegNodes commits
SegInit ==
    /\ tree \in VerifiedTreesUpTo(SegNodes, MaxLabels)
    /\ flow = "rebase_with_root"
    /\ timeout_secs = MaxTimeout
    /\ branches = [nm \in Names |-> NoBranch]
    /\ head = NoName
    /\ conflicted = FALSE
    /\ untracked = FALSE
    /\ cherry_pick_head = FALSE
    /\ before = [branches |-> branches, head |-> head,
                 conflicted |-> conflicted, untracked |-> untracked,
                 cherry_pick_head |-> cherry_pick_head]
    /\ pc = "emit"
    /\ error = NoError
    /\ gen = GenInit(tree)
    /\ segment = NoSegment
    /\ old_to_new_name_map = << >>
    /\ ref_index = 0
    /\ commits = << >>
    /\ fin_index = 1
    /\ elapsed = 0
    /\ waited = 0
    /\ last_failure = "none"
    /\ failures = 0
    /\ picked = << >>
    /\ repo = NoRepo
    /\ built = NoBuilt

\* one resumption of the generator by "for segment in bfs_segments(tree)"
Emit ==
    /\ pc = "emit"
    /\ LET r == bfs_segments(tree, gen) IN
       /\ gen' = r.gen
       /\ segment' = r.seg
       /\ pc' = IF r.seg = NoSegment THEN "emitted" ELSE "emit"
    /\ UNCHANGED <<error, old_to_new_name_map, ref_index, commits, fin_index, elapsed, waited,
                   last_failure, failures, picked>>
    /\ UNCHANGED <<input_vars, backend_vars>>

SegSpec == SegInit /\ [][Emit]_vars

\* ----- properties --------------------------------------------------------------
\* the Commit invariant of a reconstructible tree
TreeOK(t) == \A c \in Nodes(t) : ~is_merger(t, c) /\ Len(refs(t, c)) <= 1

Backend == [branches |-> branches, head |-> head, conflicted |-> conflicted,
            untracked |-> untracked, cherry_pick_head |-> cherry_pick_head]

Structural == {"merge", "multi_ref"}

\* C1: as long as verify_tree has not completed, and for ever when the tree is
\* one that verify_tree must reject, the branches, the commits they point at,
\* the checked-out branch and the working tree are those of the start of the run.
C1_VerifyBeforeMutation ==
    (pc = "verify" \/ ~TreeOK(tree)) => Backend = before

\* verify_tree raised on a merge commit below the root and nothing has changed
C1_Witness ==
    /\ pc = "failed" /\ error.kind = "merge" /\ error.commit > 0
    /\ Backend = before

\* C2: verify_tree returns normally exactly for the trees without merge commit
\* and without multi-labeled commit; the error names a commit that is a merge
\* (resp. carries several labels, all listed in sorted order).
C2_VerifyIffWellFormed ==
    pc # "verify" =>
        /\ (error.kind \in Structural) <=> ~TreeOK(tree)
        /\ error.kind \in Structural => pc = "failed"
        /\ error.kind = "merge" => is_merger(tree, error.commit)
        /\ error.kind = "multi_ref" =>
              /\ Len(error.refs) > 1
              /\ Range(error.refs) = {l \in 1 .. tree.k : tree.tip[l] = error.commit}
              /\ \A i, j \in DOMAIN error.refs : i < j => error.refs[i] < error.refs[j]

\* verify_tree raised on a commit whose labels were given in unsorted order
C2_Witness ==
    /\ pc = "failed" /\ error.kind = "multi_ref"
    /\ refs(tree, error.commit) # error.refs

\* the temporary branch of the i-th map entry exists, under its temporary name
\* or, after its rename, under the original name
Built(i) ==
    \/ git_branch_exists(branches, old_to_new_name_map[i][2])
    \/ pc \in {"rename", "done"} /\ i < fin_index
          /\ git_branch_exists(branches, Orig(old_to_new_name_map[i][1]))

\* C3: while an original branch is missing, the run is in its final loops: the
\* generator has no segment left, no commit of a range is left to cherry-pick
\* and every temporary branch has been created.
C3_NoDeleteBeforeReplay ==
    (\E l \in 1 .. tree.k : ~git_branch_exists(branches, Orig(l))) =>
        /\ pc \in {"delete", "rename"}
        /\ bfs_segments(tree, gen).seg = NoSegment
        /\ commits = << >>
        /\ \A i \in DOMAIN old_to_new_name_map : Built(i)

\* the first of several originals has been deleted
C3_Witness ==
    /\ pc = "delete" /\ fin_index = 2 /\ Len(old_to_new_name_map) >= 2
    /\ ~git_branch_exists(branches, Orig(old_to_new_name_map[1][1]))

\* C4: when the renames begin, and before each of them, none of the original
\* names still to be renamed to exists.
C4_DeletesBeforeRenames ==
    pc = "rename" =>
        \A i \in fin_index .. Len(old_to_new_name_map) :
            ~git_branch_exists(branches, Orig(old_to_new_name_map[i][1]))

\* the first of several temporary branches has been renamed
C4_Witness ==
    /\ pc = "rename" /\ fin_index = 2 /\ Len(old_to_new_name_map) >= 2
    /\ git_branch_exists(branches, Orig(old_to_new_name_map[1][1]))

\* C5: no branch creation and no rename ever finds its target name taken.
C5_NoNameCollision ==
    /\ error.kind # "branch_exists"
    /\ \A i, j \in DOMAIN old_to_new_name_map :
          i # j => old_to_new_name_map[i][2] # old_to_new_name_map[j][2]

\* a run is complete in which the provider had to skip a taken temporary name
C5_Witness ==
    /\ pc = "done" /\ ref_index > 0 /\ Len(old_to_new_name_map) >= 2

\* the segments bfs_segments yields from generator state g on
RECURSIVE SegmentsFrom(_, _)
SegmentsFrom(t, g) ==
    LET r == bfs_segments(t, g)
    IN  IF r.seg = NoSegment THEN << >> ELSE <<r.seg>> \o SegmentsFrom(t, r.gen)

AllSegments(t) == SegmentsFrom(t, GenInit(t))

\* the changes of the tree's commits after the start commit up to the end commit
TreeRange(t, seg) ==
    SubSeq(Path(t, seg.end_full_hash), Len(Path(t, seg.start_full_hash)) + 1,
           Len(Path(t, seg.end_full_hash)))

\* the changes of the commits the local branch of the end label held, when the
\* run began, on top of the segment's start commit, oldest first
LocalRange(t, seg) ==
    LET h == before.branches[Orig(seg.end_ref)]
        k == CommonPrefixLen(Path(t, seg.start_full_hash), h)
    IN  SubSeq(h, k + 1, Len(h))

UpdateDoneClean == flow = "update" /\ pc = "done" /\ failures = 0

\* C6 as claimed: after an update without failing cherry-pick every end label
\* holds the final history of its start branch followed by the changes of the
\* tree's commits of the segment.
C6_TreeCommitsReplayed ==
    UpdateDoneClean =>
        \A i \in DOMAIN AllSegments(tree) :
            LET seg == AllSegments(tree)[i] IN
            branches[Orig(seg.end_ref)] =
                branches[Orig(seg.start_ref)] \o TreeRange(tree, seg)

\* C6 amended: after an update without failing cherry-pick every end label
\* holds the final history of its start branch followed by the changes of the
\* commits its own local branch had on top of the segment's start commit,
\* oldest first; so siblings get their parent's history and their own commits.
C6_LocalCommitsReplayed ==
    UpdateDoneClean =>
        \A i \in DOMAIN AllSegments(tree) :
            LET seg == AllSegments(tree)[i] IN
            branches[Orig(seg.end_ref)] =
                branches[Orig(seg.start_ref)] \o LocalRange(tree, seg)

\* two siblings were rebuilt on a parent that carries a local commit
C6_Witness ==
    /\ UpdateDoneClean
    /\ \E i, j \in DOMAIN AllSegments(tree) :
          LET a == AllSegments(tree)[i]
              b == AllSegments(tree)[j]
          IN  /\ a.end_ref # b.end_ref
              /\ a.start_ref = b.start_ref
              /\ a.end_full_hash # 0 /\ b.end_full_hash # 0
              /\ tree.parent[a.end_full_hash] = tree.parent[b.end_full_hash]
              /\ before.branches[Orig(a.start_ref)] # Path(tree, a.start_full_hash)
              /\ Last(before.branches[Orig(a.start_ref)]) \in Range(branches[Orig(a.end_ref)])
              /\ Last(before.branches[Orig(a.start_ref)]) \in Range(branches[Orig(b.end_ref)])

RECURSIVE HasLabeledAncestor(_, _)
HasLabeledAncestor(t, c) ==
    c # 0 /\ (refs(t, t.parent[c]) # << >> \/ HasLabeledAncestor(t, t.parent[c]))

\* C7 as claimed: in the update flow a label without labeled ancestor gets no
\* temporary branch, the run does not stop at it, and after the run it points
\* at the commit it pointed at before.
C7_TopBranchNotRebuilt ==
    flow = "update" =>
        /\ \A i \in DOMAIN old_to_new_name_map :
              HasLabeledAncestor(tree, tree.tip[old_to_new_name_map[i][1]])
        /\ error.kind # "type_error"
        /\ pc = "done" =>
              \A l \in 1 .. tree.k :
                  ~HasLabeledAncestor(tree, tree.tip[l]) =>
                      branches[Orig(l)] = before.branches[Orig(l)]

\* C8 as claimed: a content conflict that the external actor resolves does not
\* end the run; the engine goes on with the next commit.
C8_ResolvedConflictResumes ==
    ~(pc = "failed" /\ error.kind = "cherry_pick" /\ last_failure = "conflict")

Waiting == pc \in {"wait", "timecheck"}

\* C9: the wait fails only when the timeout has elapsed, the poll that reads a
\* clock past the timeout fails, and the wait ends (in a clean tree or in the
\* timeout error) whatever the external actor does.
C9_TimeoutBounded ==
    /\ [](error.kind = "timeout" => elapsed >= timeout_secs /\ pc = "failed")
    /\ [][pc = "timecheck" /\ elapsed > timeout_secs /\ pc' # pc
            => pc' = "failed" /\ error'.kind = "timeout"]_vars
    /\ (Waiting ~> ~Waiting)

\* the conflict was never resolved and the run failed past a positive timeout
C9_Witness ==
    /\ pc = "failed" /\ error.kind = "timeout" /\ timeout_secs > 0
    /\ conflicted /\ last_failure = "conflict"

\* C10 as claimed: the engine is in the wait loop only after a cherry-pick
\* that stopped on a content conflict.
C10_WaitOnlyForConflict ==
    Waiting => last_failure = "conflict"

\* the local branches are those of the required tree
Synchronized ==
    \A l \in 1 .. tree.k : before.branches[Orig(l)] = Path(tree, tree.tip[l])

\* C11 as claimed: an update of local branches that are synchronized with the
\* required tree, in which no cherry-pick fails, does not fail, and when it is
\* done every branch holds the history it held before.
C11_SynchronizedRunKeepsContent ==
    (flow = "update" /\ TreeOK(tree) /\ Synchronized /\ failures = 0) =>
        /\ pc # "failed"
        /\ pc = "done" =>
              \A l \in 1 .. tree.k : branches[Orig(l)] = before.branches[Orig(l)]

\* C12: whenever the provider is called (the call is followed by the new map
\* entry), the name it returns is not the name of a branch that exists at the
\* moment of the call.
C12_ProvidedNameIsFree ==
    [][Len(old_to_new_name_map') > Len(old_to_new_name_map) =>
          ~git_branch_exists(branches, Last(old_to_new_name_map')[2])]_vars

\* the provider was called for a label whose first temporary name was taken,
\* and the branch it named has been created
C12_Witness ==
    \E i \in DOMAIN old_to_new_name_map :
        /\ git_branch_exists(before.branches, TmpName(old_to_new_name_map[i][1], 0))
        /\ old_to_new_name_map[i][2][2] > 0
        /\ head = old_to_new_name_map[i][2]

\* C13 as claimed: at every point of a run, a further call of the provider for
\* a label it has already named returns the name it returned before.
C13_RepeatedCallSameName ==
    \A i \in DOMAIN old_to_new_name_map :
        TmpName(old_to_new_name_map[i][1],
                provider_index(branches, old_to_new_name_map[i][1], ref_index))
            = old_to_new_name_map[i][2]

\* a is a strict ancestor of c along the child edges of the tree
RECURSIVE IsAncestor(_, _, _)
IsAncestor(t, a, c) ==
    c # 0 /\ (t.parent[c] = a \/ IsAncestor(t, a, t.parent[c]))

\* C14 as claimed: the segment the generator has emitted ends at a strict
\* descendant of the commit it starts at.
C14_EndBelowStart ==
    segment # NoSegment =>
        /\ segment.start_full_hash # segment.end_full_hash
        /\ IsAncestor(tree, segment.start_full_hash, segment.end_full_hash)

\* C15: in the sequence bfs_segments emits for a verified tree, every segment
\* starts at the root, under the root's label, or at a label that an earlier
\* segment of the sequence ends at. The sequence depends on the tree alone, so it
\* is examined where the run begins.
C15_StartEmittedEarlier ==
    (pc = "verify" /\ TreeOK(tree)) =>
        LET segs == AllSegments(tree) IN
        \A i \in DOMAIN segs :
            \/ segs[i].start_full_hash = 0 /\ segs[i].start_ref = first_ref(tree, 0)
            \/ \E j \in 1 .. (i - 1) : segs[j].end_ref = segs[i].start_ref

\* the generator has emitted a segment that starts below the root, at the end
\* label of an earlier segment
C15_Witness ==
    /\ segment # NoSegment /\ segment.start_full_hash # 0
    /\ segment.start_ref \in MapKeys(old_to_new_name_map)
    /\ segment.start_ref # segment.end_ref

\* the nearest strict ancestor of c that carries a label, the root when none does
RECURSIVE NearestLabeled(_, _)
NearestLabeled(t, c) ==
    LET p == t.parent[c] IN
    IF p = 0 \/ refs(t, p) # << >> THEN p ELSE NearestLabeled(t, p)

\* C16 as claimed: for a verified tree every emitted segment ends at a labeled
\* commit below the root and starts at its nearest labeled ancestor (the root
\* when there is none), and every labeled commit below the root is the end of
\* exactly one emitted segment.
C16_OneSegmentPerLabel ==
    TreeOK(tree) =>
        LET segs == AllSegments(tree) IN
        /\ \A i \in DOMAIN segs :
              /\ segs[i].end_full_hash # 0
              /\ segs[i].end_ref = first_ref(tree, segs[i].end_full_hash)
              /\ segs[i].start_full_hash = NearestLabeled(tree, segs[i].end_full_hash)
              /\ segs[i].start_ref = first_ref(tree, segs[i].start_full_hash)
        /\ \A c \in Nodes(tree) \ {0} :
              refs(tree, c) # << >> =>
                  Cardinality({i \in DOMAIN segs : segs[i].end_full_hash = c}) = 1

\* the edges, each named by its lower commit, on the path from commit a down to c
RECURSIVE PathEdges(_, _, _)
PathEdges(t, a, c) ==
    IF c = a \/ c = 0 THEN {} ELSE {c} \cup PathEdges(t, a, t.parent[c])

\* the span of a segment: the edges between its start and its end commit
Span(t, seg) == PathEdges(t, seg.start_full_hash, seg.end_full_hash)

\* the edges that lie on a path from the root to a labeled commit
LabeledEdges(t) ==
    {c \in Nodes(t) \ {0} :
        \E d \in Nodes(t) : refs(t, d) # << >> /\ (d = c \/ IsAncestor(t, c, d))}

\* C17 as claimed: for a verified tree every edge on a path to a labeled commit
\* lies in the span of exactly one emitted segment.
C17_SpansPartitionEdges ==
    TreeOK(tree) =>
        \A c \in LabeledEdges(tree) :
            Cardinality({i \in DOMAIN AllSegments(tree) :
                            c \in Span(tree, AllSegments(tree)[i])}) = 1

\* the commits that the branch references of the call reach and its ancestor does not
RangeCommits(r) ==
    UNION {Reachable(r.history, r.branches[i]) : i \in DOMAIN r.branches}
        \ Reachable(r.history, r.ancestor)

\* the child lists of the returned tree that hold commit c, as <<parent, position>>
ChildSlots(b, c) ==
    {s \in UNION {{<<p, i>> : i \in DOMAIN b.children[p]} : p \in DOMAIN b.children} :
        b.children[s[1]][s[2]] = c}

\* C18 as claimed: build_tree returns a tree whose root is the ancestor and whose
\* nodes are exactly the ancestor and the commits some branch reference reaches and
\* the ancestor does not, one node per commit carrying the names of all the branches
\* that point at it; when none of these commits is a merge, every non-root node is
\* in exactly one child list and is reachable from the root.
C18_BuildTreeContract ==
    pc = "built" =>
        /\ built.error = NoError
        /\ built.full_hash = repo.ancestor
        /\ Range(built_nodes(built, built.full_hash)) = {repo.ancestor} \cup RangeCommits(repo)
        /\ \A i \in DOMAIN repo.branches : i \in Range(built.refs[repo.branches[i]])
        /\ (\A c \in RangeCommits(repo) : Len(repo.history[c]) <= 1) =>
              \A c \in DOMAIN built.children \ {built.full_hash} :
                  /\ Cardinality(ChildSlots(built, c)) = 1
                  /\ c \in Range(built_nodes(built, built.full_hash))

\* a successful run of one of the rebase flows
RebaseDone == flow # "update" /\ pc = "done"

\* a history with the commits made to resolve a conflict taken for the commits they
\* stand for
Unresolved(h) == [i \in DOMAIN h |-> [h[i] EXCEPT !.res = FALSE]]

\* the changes of the tree's commits below the root on the path to commit c
TreePath(t, c) == SubSeq(Path(t, c), 2, Len(Path(t, c)))

\* the labels a rebase rebuilt: those below the root and those it mapped
Rebased(t, m) == {l \in 1 .. t.k : t.tip[l] # 0 \/ l \in MapKeys(m)}

\* C19: in the rebase flows the base branch always points at the commit it pointed
\* at when the run began, and after a successful run every rebased branch holds the
\* base branch's history followed by the commits of its own path in the tree.
C19_BaseKeptBranchesOnBase ==
    /\ flow # "update" => branches[base_branch] = before.branches[base_branch]
    /\ RebaseDone =>
          \A l \in Rebased(tree, old_to_new_name_map) :
              Unresolved(branches[Orig(l)]) =
                  before.branches[base_branch] \o TreePath(tree, tree.tip[l])

\* a rebase ended that rebuilt a branch on top of another rebuilt branch
C19_Witness ==
    /\ RebaseDone
    /\ \E l1, l2 \in Rebased(tree, old_to_new_name_map) :
          /\ tree.tip[l2] # 0
          /\ tree.tip[l1] # 0
          /\ IsAncestor(tree, tree.tip[l1], tree.tip[l2])
          /\ branches[Orig(l2)] # before.branches[Orig(l2)]

\* the step created the temporary branch of the end label of the segment it took,
\* and not on the base branch: the rebase flows put the segments that start at the
\* root on the base branch they are given
CreatedOnStartLabel ==
    /\ Len(old_to_new_name_map') > Len(old_to_new_name_map)
    /\ pc' # "failed"
    /\ ~(flow # "update" /\ segment'.start_full_hash = 0)

\* C20: a temporary branch created for a segment's end label starts at the
\* temporary branch of the segment's start label when the map holds that label, and
\* at the original start label only when it does not.
C20_ChildStartsAtRebuiltParent ==
    [][CreatedOnStartLabel =>
          branches'[Last(old_to_new_name_map')[2]] =
              IF segment'.start_ref \in MapKeys(old_to_new_name_map)
              THEN branches[MapGet(old_to_new_name_map, segment'.start_ref)]
              ELSE branches[Orig(segment'.start_ref)]]_vars

\* the branch of a child was just created on a rebuilt parent whose temporary branch
\* differs from its original
C20_Witness ==
    /\ flow = "update"
    /\ pc \in {"pick", "segments"}
    /\ segment # NoSegment
    /\ segment.start_ref \in MapKeys(old_to_new_name_map)
    /\ old_to_new_name_map # << >>
    /\ Last(old_to_new_name_map)[1] = segment.end_ref
    /\ head = Last(old_to_new_name_map)[2]
    /\ branches[MapGet(old_to_new_name_map, segment.start_ref)]
          # branches[Orig(segment.start_ref)]
    /\ \E k \in 1 .. Len(branches[head]) :
          SubSeq(branches[head], 1, k)
              = branches[MapGet(old_to_new_name_map, segment.start_ref)]

\* the step created the temporary branch of the end label of the segment it took
Created ==
    /\ Len(old_to_new_name_map') > Len(old_to_new_name_map)
    /\ pc' # "failed"

\* the labels the tree attaches to its root
RootLabels(t) == {l \in 1 .. t.k : t.tip[l] = 0}

\* C21 as claimed: in the rebase flows a temporary branch is created from the base
\* branch exactly when its segment starts at the root of the tree, and a label on
\* the root is never mapped and its branch never changes.
C21_RootSegmentsOnBaseRootSkipped ==
    /\ [][(flow # "update" /\ Created) =>
            ((branches'[Last(old_to_new_name_map')[2]] = branches[base_branch])
                <=> (segment'.start_full_hash = 0))]_vars
    /\ [](flow # "update" =>
            \A l \in RootLabels(tree) :
                /\ l \notin MapKeys(old_to_new_name_map)
                /\ branches[Orig(l)] = before.branches[Orig(l)])



SegmentRange ==
    git_log_range(Path(tree, segment.start_full_hash), branches[Orig(segment.end_ref)])

\* the changes of the oldest d commits of a range, oldest first
OldestFirst(range, d) == [i \in 1 .. d |-> Last(range[Len(range) + 1 - i])]

\* the last d changes of a history
LastChanges(h, d) == SubSeq(h, Len(h) + 1 - d, Len(h))

\* C23: when git_cherrypick_range attempts a commit, the checked-out branch is the
\* temporary branch of the segment's end label, the commits still to do are the
\* newest of the range, and the older commits of the range are the last commits of
\* the branch, oldest first, each as it applied or as its conflict was resolved.
C23_OldestFirstOneAtATime ==
    pc = "pick" =>
        LET range == SegmentRange
            done == Len(range) - Len(commits)
        IN  /\ head = MapGet(old_to_new_name_map, segment.end_ref)
            /\ done >= 0
            /\ commits = SubSeq(range, 1, Len(commits))
            /\ Len(branches[head]) >= done
            /\ Unresolved(LastChanges(branches[head], done)) = OldestFirst(range, done)

\* the second commit of a range is attempted after the conflict of the first was
\* resolved
C23_Witness ==
    /\ pc = "pick"
    /\ Len(SegmentRange) - Len(commits) >= 1
    /\ Last(branches[head]).res

\* the step read the range of a segment: it took the segment from the generator and
\* checked out or created its temporary branch
RangeRead == pc = "segments" /\ pc' \in {"pick", "segments"}

\* C24 as claimed: the commits read for a segment are the commits of the required
\* tree after the segment's start commit up to its end commit.
C24_TreeCommitsPicked ==
    [][RangeRead =>
          OldestFirst(commits', Len(commits')) = TreeRange(tree, segment')]_vars

\* C24 amended: the commits read for a segment are the commits that the local branch
\* named like the end label holds on top of the segment's start commit; they are
\* the tree's commits where that branch points at the tree's end commit.
C24_LocalCommitsPicked ==
    [][RangeRead =>
          /\ OldestFirst(commits', Len(commits')) = LocalRange(tree, segment')
          /\ before.branches[Orig(segment'.end_ref)] = Path(tree, segment'.end_full_hash)
                => OldestFirst(commits', Len(commits')) = TreeRange(tree, segment')]_vars

\* the update flow replays a segment whose local end branch was amended
C24_Witness ==
    /\ flow = "update"
    /\ pc = "pick"
    /\ commits = SegmentRange
    /\ before.branches[Orig(segment.end_ref)] # Path(tree, segment.end_full_hash)
    /\ OldestFirst(commits, Len(commits)) # TreeRange(tree, segment)

\* C25 as claimed: whenever update_local_struct allocates a temporary branch, the
\* start point it passes to the branch creation names a branch that exists.
C25_StartPointExists ==
    [][(flow = "update" /\ Len(old_to_new_name_map') > Len(old_to_new_name_map)) =>
          git_branch_exists(branches,
                            start_ref_update(tree, segment', old_to_new_name_map))]_vars

\* the run was aborted by git_cherrypick_range: the conflict was not resolved in
\* time, or the cherry-pick failed without a conflict
ReplayAborted == pc = "failed" /\ error.kind \in {"timeout", "cherry_pick"}

\* C26: when a run is aborted during the replay of a segment, every branch name
\* other than a temporary one holds what it held when the run began, and every
\* temporary branch recorded in the map exists.
C26_AbortLeavesBranches ==
    ReplayAborted =>
        /\ \A nm \in Names : nm[2] = 0 - 1 => branches[nm] = before.branches[nm]
        /\ \A i \in DOMAIN old_to_new_name_map :
              git_branch_exists(branches, old_to_new_name_map[i][2])

\* a run timed out in the replay of its second segment
C26_Witness ==
    /\ ReplayAborted
    /\ error.kind = "timeout"
    /\ Len(old_to_new_name_map) >= 2
    /\ branches[old_to_new_name_map[1][2]] # before.branches[Orig(old_to_new_name_map[1][1])]

\* the names of the local branches in a backend state
BranchNames(br) == {nm \in Names : git_branch_exists(br, nm)}

\* C27: every rename gives the original name the branch that was built under its
\* temporary name, and after a successful run the local branch names are those of
\* before the run: every mapped original name exists and none of the temporary
\* names of the map does.
C27_NamesRestored ==
    /\ [][(pc = "rename" /\ fin_index' > fin_index) =>
            branches'[Orig(old_to_new_name_map[fin_index][1])]
                = branches[old_to_new_name_map[fin_index][2]]]_vars
    /\ [](pc = "done" =>
            /\ BranchNames(branches) = BranchNames(before.branches)
            /\ \A i \in DOMAIN old_to_new_name_map :
                  /\ git_branch_exists(branches, Orig(old_to_new_name_map[i][1]))
                  /\ ~git_branch_exists(branches, old_to_new_name_map[i][2]))

\* a run succeeded that had to pass over a temporary name left by an earlier run
C27_Witness ==
    /\ pc = "done"
    /\ Len(old_to_new_name_map) >= 2
    /\ \E i \in DOMAIN old_to_new_name_map : old_to_new_name_map[i][2][2] >= 1
    /\ \E nm \in BranchNames(branches) : nm[2] >= 0

\* the step took a segment whose end label is already in the map
Revisit ==
    /\ pc = "segments"
    /\ pc' \in {"pick", "segments"}
    /\ Len(old_to_new_name_map') = Len(old_to_new_name_map)

Depth(t, c) == Len(Path(t, c)) - 1

\* C29 as claimed: bfs_segments emits in breadth-first order, so a segment is
\* never followed by one whose end commit lies nearer to the root (consecutive
\* emissions are compared; the order of any two follows by transitivity).
\* Violated: the elif branch of bfs_segments emits a segment that ends at the
\* labeled root (depth 0) for each unlabeled child of the root, also after a
\* segment to a labeled child of the root (depth 1) has been emitted.
C29_BreadthFirstOrder ==
    [][(segment # NoSegment /\ segment' # NoSegment) =>
          Depth(tree, segment.end_full_hash) <= Depth(tree, segment'.end_full_hash)]_vars

\* the same order among the segments that end below their start: holds
C29_BreadthFirstOrderProper ==
    [][(/\ segment # NoSegment /\ segment' # NoSegment
        /\ segment'.end_full_hash # segment'.start_full_hash) =>
          Depth(tree, segment.end_full_hash) <= Depth(tree, segment'.end_full_hash)]_vars

\* the segment loop has run to the end of the generator
GeneratorEnded == pc \in {"delete", "rename", "done"}

Ended == pc \in {"done", "failed"}

\* C30: on a verified tree with a finite timeout the run terminates:
\* bfs_segments never dequeues a commit twice and, when it ends, has dequeued
\* every commit of the tree; and once the segment loop is entered the run
\* reaches the successful end or a fatal error, whatever the clock and the
\* external actor do during the wait for conflict resolution.
C30_RunTerminates ==
    /\ [](\A i, j \in DOMAIN gen.dequeued : gen.dequeued[i] = gen.dequeued[j] => i = j)
    /\ [](GeneratorEnded =>
             /\ gen.queue = << >>
             /\ {gen.dequeued[i] : i \in DOMAIN gen.dequeued} = Nodes(tree))
    /\ (pc = "segments" ~> Ended)

\* a run on a tree of several commits that waited for a conflict to be resolved
\* and then went through both final loops to the end
C30_Witness ==
    /\ pc = "done" /\ last_failure = "conflict"
    /\ tree.n > 1 /\ Len(gen.dequeued) = tree.n
    /\ old_to_new_name_map # << >>

\* C31: the error of a timed-out wait carries the error of the cherry-pick the
\* wait was entered for (the cherry-pick of the commit the range is at), the
\* step that raises it touches neither a branch nor the checkout, and after it
\* the run takes no further step: no cherry-pick, no delete, no rename.
C31_TimeoutWrapsAndEnds ==
    /\ [][(error'.kind = "timeout" /\ error.kind # "timeout") =>
             /\ pc = "timecheck" /\ pc' = "failed"
             /\ commits # << >>
             /\ Len(error'.args) = 1
             /\ error'.args[1].kind = "cherry_pick"
             /\ error'.args[1].args = <<Last(commits)>>
             /\ last_failure # "none"
             /\ UNCHANGED <<branches, head, commits, old_to_new_name_map>>]_vars
    /\ [][error.kind = "timeout" => vars' = vars]_vars

\* the wait timed out with commits of the range still to pick and temporary
\* branches still to rename
C31_Witness ==
    /\ pc = "failed" /\ error.kind = "timeout"
    /\ Len(commits) > 1
    /\ error.args = <<CalledProcessError(Last(commits))>>
    /\ old_to_new_name_map # << >>
    /\ \E i \in DOMAIN old_to_new_name_map :
          git_branch_exists(branches, old_to_new_name_map[i][2])

\* C32: in the wait the steps of the engine (polls of the status, readings of
\* the clock) leave the backend alone, every change of the backend in the wait
\* is a step of the external actor that leaves the engine alone, and the wait
\* is left for more replaying only by a poll that reads an empty status.
C32_WaitOnlyPolls ==
    [][Waiting =>
          /\ engine_vars' # engine_vars => UNCHANGED backend_vars
          /\ <<branches, head, conflicted, untracked, cherry_pick_head>>'
                # <<branches, head, conflicted, untracked, cherry_pick_head>>
                => UNCHANGED engine_vars
          /\ pc' \notin {"wait", "timecheck", "failed"} =>
                /\ pc = "wait" /\ ~has_conflicting_files
                /\ pc' \in {"pick", "segments"}]_vars

\* the wait was left after the external actor committed its resolution
C32_Witness ==
    /\ pc \in {"pick", "segments"} /\ last_failure = "conflict"
    /\ ~has_conflicting_files /\ ~cherry_pick_head
    /\ branches[head] # NoBranch /\ Last(branches[head]).res

\* C33: a poll that reads an empty status ends the wait normally, also when
\* more than the timeout has elapsed; the clock is read only after a poll that
\* read a non-empty status, and the timeout error is raised only there.
C33_CleanBeforeTimeout ==
    /\ [][(pc = "wait" /\ ~has_conflicting_files /\ engine_vars' # engine_vars) =>
             /\ pc' \in {"pick", "segments"}
             /\ error' = error
             /\ commits' = Front(commits)]_vars
    /\ [][(pc' = "timecheck" /\ pc # "timecheck") =>
             pc = "wait" /\ has_conflicting_files]_vars
    /\ [][(error'.kind = "timeout" /\ error.kind # "timeout") => pc = "timecheck"]_vars

\* a wait that ended normally although more than the timeout had elapsed
C33_Witness ==
    /\ pc \in {"pick", "segments"} /\ error = NoError
    /\ last_failure = "conflict"
    /\ elapsed > timeout_secs

\* C34: the clock of a wait starts when the wait is entered, whatever the
\* earlier waits of the run took; the time of all waits together never ends
\* a run whose current wait is within the timeout, and it is bounded only by
\* the number of failed cherry-picks times the longest single wait.
C34_TimeoutPerConflict ==
    /\ [][(pc = "except" /\ pc' = "wait") => elapsed' = 0 /\ waited' = waited]_vars
    /\ [](error.kind = "timeout" => elapsed > timeout_secs)
    /\ [](waited <= failures * (timeout_secs + 1))

\* a run with two waits, each ended by a resolution when exactly the timeout had
\* elapsed, reached its successful end after waiting twice the timeout
C34_Witness ==
    /\ pc = "done" /\ error = NoError
    /\ timeout_secs > 0 /\ failures = 2
    /\ elapsed = timeout_secs
    /\ waited = 2 * timeout_secs

\* no commit was handed to git_cherrypick twice in this run
PickedOnce == \A i, j \in DOMAIN picked : picked[i] = picked[j] => i = j

\* the change of a commit is on a branch, as it is or as the external actor
\* committed it
Holds(history, ch) == \E i \in DOMAIN history : history[i].id = ch.id /\ history[i].kind = ch.kind

\* the range is worked off one cherry-pick per commit: a commit leaves the range
\* only as the last one handed to git_cherrypick, a wait that returns hands
\* nothing to git_cherrypick and leaves the change of its commit on the branch
\* that is checked out, and a new range is loaded only when the last is used up
C35_PickedOncePerSegment ==
    /\ [][commits' # commits =>
             IF pc = "segments" THEN commits = << >>
             ELSE /\ commits' = Front(commits)
                  /\ picked' # << >> /\ Last(picked') = Last(commits)]_vars
    /\ [][picked' # picked =>
             pc = "pick" /\ picked' = Append(picked, Last(commits))]_vars
    /\ [][(Waiting /\ pc' \in {"pick", "segments"}) =>
             /\ picked' = picked
             /\ Last(commits) \notin Range(commits')
             /\ Holds(branches'[head'], Last(Last(commits)))]_vars
    /\ [](\A i \in DOMAIN picked : i + 1 \in DOMAIN picked =>
             (picked[i] # picked[i + 1]))

\* C35 as claimed: every commit of a range is handed to git_cherrypick exactly
\* once in a run, the commit of a conflict is not applied again after the wait,
\* and its change is on the temporary branch when the wait returns.
\* Violated: a commit that lies in the range of two segments (an unlabeled
\* commit below which two labeled branches fork) is cherry-picked once for each.
C35_PickedOncePerRun ==
    /\ C35_PickedOncePerSegment
    /\ [](PickedOnce)

\* the nodes of the returned tree that carry the name of branch i, one entry for
\* each time the name stands in the refs of a node
Attached(b, i) ==
    {s \in UNION {{<<c, k>> : k \in DOMAIN b.refs[c]} : c \in DOMAIN b.refs} :
        b.refs[s[1]][s[2]] = i}

\* C36: in the tree build_tree returns for the common ancestor of its branches
\* the name of every branch stands exactly once, in the refs of one node that the
\* root reaches: the root when the branch points at the ancestor, the commit the
\* branch points at otherwise.
C36_LabelOnOneNode ==
    (pc = "built" /\ built.error = NoError) =>
        \A i \in DOMAIN repo.branches :
            /\ Cardinality(Attached(built, i)) = 1
            /\ \A s \in Attached(built, i) :
                  /\ s[1] = IF repo.branches[i] = repo.ancestor THEN built.full_hash
                            ELSE repo.branches[i]
                  /\ s[1] \in Range(built_nodes(built, built.full_hash))

\* a tree was returned for one branch at the ancestor and one branch two or more
\* commits above it
C36_Witness ==
    /\ pc = "built" /\ built.error = NoError
    /\ \E i, j \in DOMAIN repo.branches :
          /\ repo.branches[i] = repo.ancestor
          /\ Len(repo_log_range(repo.history, repo.ancestor, repo.branches[j])) >= 2
          /\ <<repo.branches[j], 1>> \in Attached(built, j)
          /\ <<built.full_hash, 1>> \in Attached(built, i)

\* the provider is called in this step: the call is followed by the new map entry
ProviderCalled == Len(old_to_new_name_map') > Len(old_to_new_name_map)

\* C37: the counter of the provider never decreases and moves only in a call of
\* the provider; a call for label l returns l-tmp-k, where k is not below the
\* counter, no branch l-tmp-k exists, every l-tmp-j with j from the counter up
\* to k - 1 exists, and the counter is left at k, for whatever label the
\* counter was moved before.
C37_SharedCounter ==
    /\ [][ref_index' >= ref_index /\ (ref_index' # ref_index => ProviderCalled)]_vars
    /\ [][ProviderCalled =>
             LET l == Last(old_to_new_name_map')[1]
                 new_ref == Last(old_to_new_name_map')[2]
                 k == new_ref[2]
             IN  /\ new_ref = TmpName(l, k)
                 /\ k >= ref_index
                 /\ ref_index' = k
                 /\ ~git_branch_exists(branches, new_ref)
                 /\ \A j \in ref_index .. (k - 1) :
                       git_branch_exists(branches, TmpName(l, j))]_vars

\* a label whose first temporary name was free got a later one, because the
\* counter had been moved in the call for another label
C37_Witness ==
    /\ Len(old_to_new_name_map) >= 2
    /\ LET l == Last(old_to_new_name_map)[1]
           new_ref == Last(old_to_new_name_map)[2]
       IN  /\ new_ref[2] > 0 /\ new_ref[2] = ref_index
           /\ ~git_branch_exists(before.branches, TmpName(l, 0))
           /\ ~git_branch_exists(branches, TmpName(l, 0))
           /\ head = new_ref
           /\ \E i \in DOMAIN old_to_new_name_map :
                 /\ old_to_new_name_map[i][1] # l
                 /\ old_to_new_name_map[i][2][2] = ref_index

====
